---- MODULE Spec2Model ----
(***************************************************************************)
(* Slot state engine of the futsal booking platform: the per-slot         *)
(* Firestore documents ("slots"), the booking records ("bookings"), and   *)
(* the API routes and manager-client handlers that change them.           *)
(*                                                                         *)
(* A route handler is modelled in the steps Firestore gives it: the       *)
(* gateway part (role check) together with the first run of the           *)
(* transaction body against the documents it reads (...Request), and the  *)
(* commit of the buffered writes (...Commit).  A transaction whose read   *)
(* documents were written by somebody else before it commits is rolled    *)
(* back and its body is run again (TxRetry).                              *)
(***************************************************************************)
EXTENDS Integers, Sequences, FiniteSets, TLC

\* ------------------------------------------------------------------ bounds
MaxTime == 2          \* the clock runs over 0..MaxTime (minutes)
MaxOps == 2           \* API requests and manager status writes in one behaviour

\* --------------------------------------------------------- program values
DefaultHoldMinutes == 5
\* attempts of runTransaction when called without options
MaxAttempts == 5
DefaultSlotDuration == 60
FirstHour == 9
SecondHour == FirstHour + 1

Customers == {"u1", "u2"}
\* venues/{venueId}.managedBy: the manager of the venue modelled here
Managers == {"m1"}
\* a user whose role is manager and who manages some other venue
OtherManagers == {"m2"}
Actors == Customers \cup Managers \cup OtherManagers
\* users/{uid}.role as read by callerIsManagerOrAdmin
RoleOf(a) == IF a \in Managers \cup OtherManagers THEN "manager" ELSE "user"

\* Slot documents are keyed by the start hour of one day of the venue.
SlotIds == {FirstHour, SecondHour}
\* closing hours a schedule is generated with
GenerateEnds == {SecondHour, SecondHour + 1}
Undefined == 0 - 1
HoldDurationInputs == {Undefined, 0, 1}

NoSlot == [exists |-> FALSE, status |-> "", heldBy |-> "none",
           holdExpiresAt |-> -1, bookingId |-> 0]
FreshSlot == [exists |-> TRUE, status |-> "AVAILABLE", heldBy |-> "none",
              holdExpiresAt |-> -1, bookingId |-> 0]
NoBooking == [exists |-> FALSE, slotId |-> 0, userId |-> "none", status |-> "",
              bookingType |-> "none", bookingExpiresAt |-> -1,
              customerName |-> "", customerPhone |-> ""]

\* customerName / customerPhone of a reserve request body
NoCustomer == [customerName |-> "", customerPhone |-> ""]
CustomerInputs == {[customerName |-> "Asha", customerPhone |-> "981"],
                   [customerName |-> "Bina", customerPhone |-> "982"]}

IdleTx == [pc |-> "idle", op |-> "none", slot |-> 0, dur |-> 0, bid |-> 0,
           attempts |-> 0,
           cust |-> NoCustomer,
           stale |-> FALSE, reads |-> {}, expires |-> -1,
           status |-> 0, rbid |-> 0]

VARIABLES now, slots, bookings, venue, tx, mgrView, issued,
          payments, logCalls, users, upserts, venueSlots, stats
\* the collections and calls outside the slot grid: payments and the calls
\* of logPayment, users and the upsert requests, the migrated venueSlots
\* document and the statistics of the last migration run
rest == <<payments, logCalls, users, upserts, venueSlots, stats>>
vars == <<now, slots, bookings, venue, tx, mgrView, issued, rest>>

\* ------------------------------------------------------------- conversions
\* String.prototype.toUpperCase / toLowerCase on the status strings in use
ToUpper(s) ==
  CASE s = "booked" -> "BOOKED"
    [] s = "available" -> "AVAILABLE"
    [] s = "held" -> "HELD"
    [] s = "reserved" -> "RESERVED"
    [] s = "blocked" -> "BLOCKED"
    [] OTHER -> s

ToLower(s) ==
  CASE s = "BOOKED" -> "booked"
    [] s = "AVAILABLE" -> "available"
    [] s = "HELD" -> "held"
    [] s = "RESERVED" -> "reserved"
    [] s = "BLOCKED" -> "blocked"
    [] OTHER -> s

\* the default taken from the grid's message ("within 15 minutes")
HoldDurationQuarterHour(d) == IF d = Undefined THEN 15 ELSE d

\* const { holdDurationMinutes = 5 } = body
HoldDuration(d) == IF d = Undefined THEN DefaultHoldMinutes ELSE d

\* all slots of the venue kept in one document
SlotDocShared(s) == <<"slot", 0>>

\* db.collection("slots").doc(slotId)
SlotDoc(s) == <<"slot", s>>
BookingDoc(b) == <<"booking", b>>
VenueDoc == <<"venue", 0>>

BookingAt(b) == IF b \in 1..Len(bookings) THEN bookings[b] ELSE NoBooking

\* the hours the generate loop visits
GenHours(startHour, endHour, slotDuration) ==
  LET step == IF slotDuration \div 60 > 1 THEN slotDuration \div 60 ELSE 1
  IN {h \in SlotIds : h >= startHour /\ h < endHour /\ (h - startHour) % step = 0}

\* the instant (in minutes of the model's clock) at which slot s starts:
\* new Date(`${date}T${hour}`); the first slot starts one minute after the
\* behaviour begins, the next one an hour later
SlotStart(s) == (s - FirstHour) * 60 + 1

\* slotDateTime < now  (handleSlotClick, renderSlot)
isPast(s, t) == SlotStart(s) < t

\* renderSlot: the status a cell shows for a fetched slot document at
\* instant t; a slot without a document is shown AVAILABLE, a HELD slot
\* whose holdExpiresAt is set and before t is shown AVAILABLE
slotStatus(doc, t) ==
  LET raw == IF doc.exists THEN doc.status ELSE "AVAILABLE" IN
  IF raw = "HELD" /\ doc.holdExpiresAt # -1 /\ doc.holdExpiresAt < t
  THEN "AVAILABLE" ELSE raw

\* renderSlot: the status of a past cell is null; a customer can click a
\* cell that is not past and shows AVAILABLE
canClick(doc, s, t) == ~isPast(s, t) /\ slotStatus(doc, t) = "AVAILABLE"

\* what the manager's grid keeps of the fetched slots for handleSlotClick
\* (currentStatus === "AVAILABLE" and no selectedSlot.bookingId): whether
\* the status buttons are offered for the slot
ViewOf(sl) == [s \in SlotIds |->
                 /\ (IF sl[s].exists THEN sl[s].status ELSE "AVAILABLE") = "AVAILABLE"
                 /\ sl[s].bookingId = 0]

\* ------------------------------------------------ payments (logPayment)
\* concurrent invocations of logPayment
LogCalls == {1, 2}
\* transactionUuid, bookingId and refId of the PaymentLogData of a call; ""
\* is an absent transactionUuid / refId
PaymentInputs == {[transactionUuid |-> t, bookingId |-> 1, refId |-> r] :
                    t \in {"", "t1"}, r \in {"", "r1"}}
IdleCall == [pc |-> "idle", data |-> [transactionUuid |-> "", bookingId |-> 0,
                                     refId |-> ""], ret |-> FALSE]

\* ---------------------------------------------- users (/api/users/upsert)
Accounts == {"u1", "a1"}
NoUser == [exists |-> FALSE, role |-> ""]
UserDocs == {NoUser} \cup {[exists |-> TRUE, role |-> r] :
                             r \in {"user", "manager", "admin"}}
\* the role field of the request body; "" when the body has none
RoleInputs == {"", "manager", "admin"}
UpsertCalls == {1, 2}
IdleUpsert == [pc |-> "idle", uid |-> "none", role |-> "", assignedRole |-> "",
               snapExists |-> FALSE, status |-> 0]

\* ------------------------------------------- venueSlots (migrate-slots)
NoLedger == [exists |-> FALSE, blocked |-> <<>>, bookings |-> <<>>,
             held |-> <<>>, reserved |-> <<>>]
NoStats == [mode |-> "none", blocked |-> 0, booked |-> 0, held |-> 0,
            reserved |-> 0, available |-> 0, errors |-> 0]

RestInit ==
  /\ payments = <<>>
  /\ logCalls = [c \in LogCalls |-> IdleCall]
  /\ users = [u \in Accounts |-> IF u = "a1"
                                 THEN [exists |-> TRUE, role |-> "admin"]
                                 ELSE NoUser]
  /\ upserts = [r \in UpsertCalls |-> IdleUpsert]
  /\ venueSlots = NoLedger
  /\ stats = NoStats

\* --------------------------------------------------------------- initial
\* a venue whose schedule has been generated and not yet used
GridInit ==
  /\ now = 0
  /\ \E e \in GenerateEnds :
       /\ venue = [startHour |-> FirstHour, endHour |-> e]
       /\ slots = [s \in SlotIds |->
                     IF s \in GenHours(FirstHour, e, DefaultSlotDuration)
                     THEN FreshSlot ELSE NoSlot]
  /\ bookings = <<>>
  /\ tx = [a \in Actors |-> IdleTx]
  /\ mgrView = ViewOf(slots)
  /\ issued = 0

Init == GridInit /\ RestInit

\* ------------------------------------------------------- transaction core
CanIssue(a) == tx[a].pc \in {"idle", "done"} /\ issued < MaxOps

Started(op, s, d, b) ==
  [IdleTx EXCEPT !.pc = "run", !.op = op, !.slot = s, !.dur = d, !.bid = b,
                 !.attempts = 1]

\* the handler answers with an HTTP status; a thrown body rolls the
\* transaction back, so nothing but the answer changes
Finished(t, code, b) ==
  [IdleTx EXCEPT !.pc = "done", !.op = t.op, !.slot = t.slot,
                 !.status = code, !.rbid = b]

\* the body ran to its end: its writes are buffered until the commit
Buffered(t, reads, expires) ==
  [t EXCEPT !.pc = "commit", !.reads = reads, !.expires = expires,
            !.stale = FALSE]

\* a committed or blind write to the documents in written invalidates every
\* other transaction that has read one of them and not yet committed
Invalidate(t, a, written) ==
  [b \in Actors |->
     IF b # a /\ t[b].pc = "commit" /\ t[b].reads \cap written # {}
     THEN [t[b] EXCEPT !.stale = TRUE] ELSE t[b]]

Done(t, a, code, b) == [t EXCEPT ![a] = Finished(t[a], code, b)]

Ready(a, op) == tx[a].pc = "commit" /\ tx[a].op = op /\ ~tx[a].stale

callerIsManagerOrAdmin(a) == RoleOf(a) = "manager" \/ RoleOf(a) = "admin"

\* ------------------------------------------- the four transaction bodies
\* the hold check without the expiry test: every HELD slot is refused
HoldCheckNoExpiry(doc, t) ==
  IF ~doc.exists THEN 404
  ELSE LET status == ToUpper(doc.status) IN
       IF status # "" /\ status # "AVAILABLE" THEN 409 ELSE 0

\* the hold check written like the reserve route's: only BOOKED is refused
HoldCheckOnlyBooked(doc, t) ==
  IF ~doc.exists THEN 404
  ELSE IF ToUpper(doc.status) = "BOOKED" THEN 409 ELSE 0

\* the hold check without its existence test: a slot that has no document
\* is taken as available
HoldCheckMissingAvailable(doc, t) ==
  LET status == ToUpper(doc.status) IN
  IF status # "" /\ status # "AVAILABLE"
  THEN IF status # "HELD" THEN 409
       ELSE IF doc.holdExpiresAt # -1 /\ doc.holdExpiresAt > t
            THEN 409 ELSE 0
  ELSE 0

\* the status the hold body throws, 0 when it goes on to write
HoldCheck(doc, t) ==
  IF ~doc.exists THEN 404
  ELSE LET status == ToUpper(doc.status) IN
       IF status # "" /\ status # "AVAILABLE"
       THEN IF status # "HELD" THEN 409
            ELSE IF doc.holdExpiresAt # -1 /\ doc.holdExpiresAt > t
                 THEN 409 ELSE 0
       ELSE 0

HoldBody(t) ==
  LET code == HoldCheck(slots[t.slot], now) IN
  IF code # 0 THEN Finished(t, code, 0)
  ELSE Buffered(t, {SlotDoc(t.slot)}, now + HoldDuration(t.dur))

\* the book check written like the reserve route's: only booked is refused
BookCheckOnlyBooked(doc) ==
  IF ~doc.exists THEN 404
  ELSE IF ToLower(doc.status) = "booked" THEN 409 ELSE 0

BookCheck(doc) ==
  IF ~doc.exists THEN 404
  ELSE LET status == ToLower(doc.status) IN
       IF status # "" /\ status # "available" THEN 409 ELSE 0

BookBody(t) ==
  LET code == BookCheck(slots[t.slot]) IN
  IF code # 0 THEN Finished(t, code, 0)
  ELSE Buffered(t, {SlotDoc(t.slot), VenueDoc}, -1)

ReserveCheck(doc) ==
  IF ~doc.exists THEN 404
  ELSE IF ToUpper(doc.status) = "BOOKED" THEN 409 ELSE 0

ReserveBody(t) ==
  LET code == ReserveCheck(slots[t.slot]) IN
  IF code # 0 THEN Finished(t, code, 0)
  ELSE Buffered(t, {SlotDoc(t.slot)}, -1)

UnbookCheck(booking) ==
  IF ~booking.exists THEN 404
  ELSE IF booking.bookingType # "physical" THEN 400 ELSE 0

UnbookBody(t) ==
  LET code == UnbookCheck(BookingAt(t.bid)) IN
  IF code # 0 THEN Finished(t, code, 0)
  ELSE Buffered(t, {BookingDoc(t.bid)}, -1)

Body(t) ==
  CASE t.op = "hold" -> HoldBody(t)
    [] t.op = "book" -> BookBody(t)
    [] t.op = "reserve" -> ReserveBody(t)
    [] t.op = "unbook" -> UnbookBody(t)

\* a request that passed the gateway starts its transaction: first run of
\* the body
Request(a, t) ==
  /\ CanIssue(a)
  /\ tx' = [tx EXCEPT ![a] = Body(t)]
  /\ issued' = issued + 1
  /\ UNCHANGED <<now, slots, bookings, venue, mgrView, rest>>

\* a route that answers with the error only after its writes went through
RejectedAfterWrite(a, t, code) ==
  /\ CanIssue(a)
  /\ tx' = [tx EXCEPT ![a] = Finished(t, code, 0)]
  /\ issued' = issued + 1
  /\ slots' = [s \in SlotIds |->
                 [slots[s] EXCEPT !.exists = TRUE, !.status = "AVAILABLE"]]
  /\ UNCHANGED <<now, bookings, venue, mgrView, rest>>

Rejected(a, t, code) ==
  /\ CanIssue(a)
  /\ tx' = [tx EXCEPT ![a] = Finished(t, code, 0)]
  /\ issued' = issued + 1
  /\ UNCHANGED <<now, slots, bookings, venue, mgrView, rest>>

\* runTransaction rolls back and runs the body again after a failed commit,
\* up to the SDK's default number of attempts (no maxAttempts option is
\* passed).  A transaction is invalidated at most once per other write.
TxRetry(a) ==
  /\ tx[a].pc = "commit" /\ tx[a].stale
  /\ tx[a].attempts < MaxAttempts
  /\ tx' = [tx EXCEPT ![a] = Body([tx[a] EXCEPT !.pc = "run", !.stale = FALSE,
                                     !.reads = {},
                                     !.attempts = @ + 1])]
  /\ UNCHANGED <<now, slots, bookings, venue, mgrView, issued, rest>>

\* the answer of the routes' catch block to an error that carries no
\* status field
\*   if (err && err.status) return ... { status: err.status }
\*   return ... { status: 500 }
CatchStatus(err) == IF err.status # 0 THEN err.status ELSE 500

\* what runTransaction throws when the last attempt failed to commit: the
\* store's ABORTED error, which has a code and no status
AbortedError == [code |-> 10, status |-> 0]

\* the last attempt lost its commit too: runTransaction rejects with the
\* store's error, nothing is written, and the catch block answers
TxAbort(a) ==
  /\ tx[a].pc = "commit" /\ tx[a].stale
  /\ tx[a].attempts = MaxAttempts
  /\ tx' = [tx EXCEPT ![a] = Finished(tx[a], CatchStatus(AbortedError), 0)]
  /\ UNCHANGED <<now, slots, bookings, venue, mgrView, issued, rest>>

\* the early returns every route makes before its transaction or batch: a
\* required field is missing (400), the bearer token is missing or does not
\* verify (401)
Routes == {"hold", "book", "reserve", "unbook", "generate"}
EarlyReturn(a, op, code) ==
  /\ op \in Routes
  /\ code \in {400, 401}
  /\ Rejected(a, Started(op, 0, 0, 0), code)

\* ------------------------------------------------- POST /api/slots/hold
HoldRequest(a, s, d) ==
  /\ s \in SlotIds
  /\ Request(a, Started("hold", s, d, 0))

\* the hold written without a transaction: the booking record is set, the
\* slot update is lost
HoldCommitBookingOnly(a) ==
  /\ Ready(a, "hold")
  /\ bookings' = Append(bookings,
         [exists |-> TRUE, slotId |-> tx[a].slot, userId |-> a,
          status |-> "PENDING_PAYMENT", bookingType |-> "none",
          bookingExpiresAt |-> tx[a].expires,
          customerName |-> "", customerPhone |-> ""])
  /\ tx' = Done(tx, a, 500, 0)
  /\ UNCHANGED <<now, slots, venue, mgrView, issued, rest>>

HoldCommit(a) ==
  /\ Ready(a, "hold")
  /\ LET s == tx[a].slot
         id == Len(bookings) + 1
     IN /\ bookings' = Append(bookings,
               [exists |-> TRUE, slotId |-> s, userId |-> a,
                status |-> "PENDING_PAYMENT", bookingType |-> "none",
                bookingExpiresAt |-> tx[a].expires,
                customerName |-> "", customerPhone |-> ""])
        /\ slots' = [slots EXCEPT ![s].status = "HELD", ![s].heldBy = a,
                                  ![s].holdExpiresAt = tx[a].expires,
                                  ![s].bookingId = id]
        /\ tx' = Done(Invalidate(tx, a, {SlotDoc(s), BookingDoc(id)}), a, 200, id)
  /\ UNCHANGED <<now, venue, mgrView, issued, rest>>

\* --------------------------------------------------- POST /api/bookings
BookRequest(a, s) ==
  /\ s \in SlotIds
  /\ Request(a, Started("book", s, 0, 0))

BookCommit(a) ==
  /\ Ready(a, "book")
  /\ LET s == tx[a].slot
         id == Len(bookings) + 1
     IN /\ bookings' = Append(bookings,
               [exists |-> TRUE, slotId |-> s, userId |-> a,
                status |-> "pending", bookingType |-> "none",
                bookingExpiresAt |-> -1,
                customerName |-> "", customerPhone |-> ""])
        /\ slots' = [slots EXCEPT ![s].status = "booked", ![s].bookingId = id]
        /\ tx' = Done(Invalidate(tx, a, {SlotDoc(s), BookingDoc(id)}), a, 200, id)
  /\ UNCHANGED <<now, venue, mgrView, issued, rest>>

\* ---------------------------------------------- POST /api/slots/reserve
ReserveRequest(a, s, c) ==
  /\ s \in SlotIds
  /\ IF callerIsManagerOrAdmin(a)
     THEN Request(a, [Started("reserve", s, 0, 0) EXCEPT !.cust = c])
     ELSE Rejected(a, Started("reserve", 0, 0, 0), 403)

\* a reserve that records the booking the way the book route does
ReserveBookingAsBook(t) ==
  [exists |-> TRUE, slotId |-> t.slot, userId |-> "none",
   status |-> "pending", bookingType |-> "none", bookingExpiresAt |-> -1,
   customerName |-> "", customerPhone |-> ""]

\* bookingData of the reserve transaction
ReserveBooking(t) ==
  [exists |-> TRUE, slotId |-> t.slot, userId |-> "none",
   status |-> "confirmed", bookingType |-> "physical", bookingExpiresAt |-> -1,
   customerName |-> t.cust.customerName,
   customerPhone |-> t.cust.customerPhone]

ReserveCommit(a) ==
  /\ Ready(a, "reserve")
  /\ LET s == tx[a].slot
         id == Len(bookings) + 1
     IN /\ bookings' = Append(bookings, ReserveBooking(tx[a]))
        /\ slots' = [slots EXCEPT ![s].status = "RESERVED", ![s].bookingId = id]
        /\ tx' = Done(Invalidate(tx, a, {SlotDoc(s), BookingDoc(id)}), a, 200, id)
  /\ UNCHANGED <<now, venue, mgrView, issued, rest>>

\* ----------------------------------------------- POST /api/slots/unbook
UnbookRequest(a, s, b) ==
  /\ s \in SlotIds
  /\ IF callerIsManagerOrAdmin(a)
     THEN Request(a, Started("unbook", s, 0, b))
     ELSE Rejected(a, Started("unbook", 0, 0, 0), 403)

\* tx.update on a slot document that does not exist fails the whole commit
\* with the store's NOT_FOUND error (no status field): 500, nothing written
UnbookCommit(a) ==
  /\ Ready(a, "unbook")
  /\ LET s == tx[a].slot
         b == tx[a].bid
     IN IF ~slots[s].exists
        THEN /\ tx' = [tx EXCEPT ![a] = Finished(tx[a], 500, 0)]
             /\ UNCHANGED <<slots, bookings>>
        ELSE /\ bookings' = [bookings EXCEPT ![b] = NoBooking]
             /\ slots' = [slots EXCEPT ![s].status = "AVAILABLE", ![s].bookingId = 0]
             /\ tx' = Done(Invalidate(tx, a, {SlotDoc(s), BookingDoc(b)}), a, 200, 0)
  /\ UNCHANGED <<now, venue, mgrView, issued, rest>>

\* --------------------------------------------- POST /api/slots/generate
\* one write batch: set(..., {merge: true}) of every visited slot, update of
\* the venue's hours
Generate(a, startHour, endHour, slotDuration) ==
  /\ CanIssue(a)
  /\ issued' = issued + 1
  /\ IF ~callerIsManagerOrAdmin(a)
     THEN /\ tx' = [tx EXCEPT ![a] = Finished(Started("generate", 0, 0, 0), 403, 0)]
          /\ UNCHANGED <<slots, venue, mgrView>>
     ELSE LET hs == GenHours(startHour, endHour, slotDuration) IN
          /\ slots' = [s \in SlotIds |->
                         IF s \in hs
                         THEN [slots[s] EXCEPT !.exists = TRUE, !.status = "AVAILABLE"]
                         ELSE slots[s]]
          /\ venue' = [startHour |-> startHour, endHour |-> endHour]
          /\ tx' = [Invalidate(tx, a, {SlotDoc(h) : h \in hs} \cup {VenueDoc})
                      EXCEPT ![a] = Finished(Started("generate", 0, 0, 0), 200, 0)]
          \* handleGenerateSlots ends with fetchData(false)
          /\ mgrView' = ViewOf(slots')
  /\ UNCHANGED <<now, bookings, rest>>

\* ------------------------------------- manager grid (client, no transaction)
fetchData ==
  /\ mgrView' = ViewOf(slots)
  /\ UNCHANGED <<now, slots, bookings, venue, tx, issued, rest>>

\* handleSlotClick opens the status dialog for a slot the fetched grid shows
\* as AVAILABLE; the dialog offers the status buttons when the selected slot
\* has no bookingId; handleUpdateSlotStatus then writes the status with
\* setDoc(..., {merge: true}) and refreshes the grid
setDocStatus(s, status) ==
  /\ s >= venue.startHour /\ s < venue.endHour
  /\ mgrView[s]
  /\ slots' = [slots EXCEPT ![s].exists = TRUE, ![s].status = status]
  /\ tx' = Invalidate(tx, "none", {SlotDoc(s)})
  /\ mgrView' = ViewOf(slots')
  /\ UNCHANGED <<now, bookings, venue, rest>>

handleUpdateSlotStatus(s, status) ==
  /\ issued < MaxOps
  /\ issued' = issued + 1
  /\ setDocStatus(s, status)

\* the same handler, used again and again while a transaction is in flight
\* (not counted in the budget of operations)
RepeatedStatusWrite(s, status) ==
  /\ \E a \in Actors : tx[a].pc = "commit"
  /\ issued' = issued
  /\ setDocStatus(s, status)

\* ------------------------------------------------------------------ clock
Tick ==
  /\ now < MaxTime
  /\ now' = now + 1
  /\ UNCHANGED <<slots, bookings, venue, tx, mgrView, issued, rest>>

Next ==
  \/ \E a \in Customers, s \in SlotIds, d \in HoldDurationInputs : HoldRequest(a, s, d)
  \/ \E a \in Actors : HoldCommit(a)
  \/ \E a \in Customers, s \in SlotIds : BookRequest(a, s)
  \/ \E a \in Actors : BookCommit(a)
  \/ \E a \in Managers, s \in SlotIds, c \in CustomerInputs : ReserveRequest(a, s, c)
  \/ \E a \in Actors : ReserveCommit(a)
  \/ \E a \in Managers, s \in SlotIds, b \in 1..(Len(bookings) + 1) : UnbookRequest(a, s, b)
  \/ \E a \in Actors : UnbookCommit(a)
  \/ \E a \in Managers, e \in GenerateEnds : Generate(a, FirstHour, e, DefaultSlotDuration)
  \/ fetchData
  \/ \E s \in SlotIds, st \in {"AVAILABLE", "BLOCKED"} : handleUpdateSlotStatus(s, st)
  \/ \E a \in Actors : TxRetry(a)
  \/ Tick

Spec == Init /\ [][Next]_vars

\* ---------------------------------------------------------------------
\* The routes as every caller can reach them: requests that are malformed or
\* carry no valid token, and the manager routes called by customers and by
\* the manager of another venue, next to the customers' holds.
NextGate ==
  \/ \E a \in Customers, s \in SlotIds, d \in HoldDurationInputs : HoldRequest(a, s, d)
  \/ \E a \in Actors : HoldCommit(a)
  \/ \E a \in Actors, s \in SlotIds, c \in CustomerInputs : ReserveRequest(a, s, c)
  \/ \E a \in Actors : ReserveCommit(a)
  \/ \E a \in Actors, s \in SlotIds, b \in 1..(Len(bookings) + 1) : UnbookRequest(a, s, b)
  \/ \E a \in Actors : UnbookCommit(a)
  \/ \E a \in Actors, e \in GenerateEnds : Generate(a, FirstHour, e, DefaultSlotDuration)
  \/ \E a \in Actors, op \in Routes, code \in {400, 401} : EarlyReturn(a, op, code)
  \/ \E a \in Actors : TxRetry(a)

SpecGate == Init /\ [][NextGate]_vars

\* ---------------------------------------------------------------------
\* A hold under contention: while the customers' hold transactions on the
\* first slot are in flight the manager keeps writing that slot's status,
\* so a transaction can lose every one of its attempts.
NextContention ==
  \/ \E a \in Customers, d \in HoldDurationInputs : HoldRequest(a, FirstHour, d)
  \/ \E a \in Actors : HoldCommit(a)
  \/ \E a \in Actors : TxRetry(a)
  \/ \E a \in Actors : TxAbort(a)
  \/ \E st \in {"AVAILABLE", "BLOCKED"} : RepeatedStatusWrite(FirstHour, st)

SpecContention == Init /\ [][NextContention]_vars

\* ---------------------------------------------------------------------
\* Schedule generation with other opening hours and slot durations than the
\* defaults, next to the customers' holds.
GenerateStarts == {FirstHour, SecondHour}
SlotDurations == {DefaultSlotDuration, 2 * DefaultSlotDuration}

NextGenerate ==
  \/ \E a \in Managers, sh \in GenerateStarts, eh \in GenerateEnds,
        dur \in SlotDurations : Generate(a, sh, eh, dur)
  \/ \E a \in Customers, s \in SlotIds, d \in HoldDurationInputs : HoldRequest(a, s, d)
  \/ \E a \in Actors : HoldCommit(a)
  \/ \E a \in Actors : TxRetry(a)
  \/ Tick

SpecGenerate == Init /\ [][NextGenerate]_vars

\* ---------------------------------------------------------------------
\* The same venue later in its life: the manager has reserved the first
\* slot for a walk-in customer (booking 1) and nothing else is in flight.
InitReserved ==
  /\ now = 0
  /\ venue = [startHour |-> FirstHour, endHour |-> SecondHour + 1]
  /\ bookings = <<ReserveBooking([IdleTx EXCEPT !.slot = FirstHour,
                                                !.cust = CHOOSE c \in CustomerInputs : TRUE])>>
  /\ slots = [s \in SlotIds |->
                IF s = FirstHour
                THEN [FreshSlot EXCEPT !.status = "RESERVED", !.bookingId = 1]
                ELSE FreshSlot]
  /\ tx = [a \in Actors |-> IdleTx]
  /\ mgrView = ViewOf(slots)
  /\ issued = 0
  /\ RestInit

SpecReserved == InitReserved /\ [][Next]_vars

\* ---------------------------------------------------------------------
\* N hold requests racing for one slot at one instant: every caller sends
\* one hold for the first slot, nothing else happens and no time passes.
HoldRace(a, d) ==
  /\ tx[a].pc = "idle"
  /\ HoldRequest(a, FirstHour, d)

NextRace ==
  \/ \E a \in Actors, d \in HoldDurationInputs : HoldRace(a, d)
  \/ \E a \in Actors : HoldCommit(a)
  \/ \E a \in Actors : TxRetry(a)

SpecRace == Init /\ [][NextRace]_vars

\* ----------------------------------------- lib/paymentLogger.ts logPayment
\* the idempotency queries: payments where transactionUuid == txn, limit 1;
\* when txn is absent and bookingId and refId are given, payments where
\* bookingId == bId and refId == rId, limit 1
AlreadyLogged(data) ==
  \/ /\ data.transactionUuid # ""
     /\ \E i \in 1..Len(payments) :
          payments[i].transactionUuid = data.transactionUuid
  \/ /\ data.transactionUuid = "" /\ data.bookingId # 0 /\ data.refId # ""
     /\ \E i \in 1..Len(payments) :
          /\ payments[i].bookingId = data.bookingId
          /\ payments[i].refId = data.refId

\* logPayment up to the answer of its query: it returns true when a record
\* was found, and goes on to add the record otherwise
logPaymentQuery(c, data) ==
  /\ logCalls[c].pc = "idle"
  /\ logCalls' = [logCalls EXCEPT ![c] =
                    IF AlreadyLogged(data)
                    THEN [pc |-> "done", data |-> data, ret |-> TRUE]
                    ELSE [pc |-> "add", data |-> data, ret |-> FALSE]]
  /\ UNCHANGED <<now, slots, bookings, venue, tx, mgrView, issued,
                 payments, users, upserts, venueSlots, stats>>

\* await collection('payments').add(paymentRecord); return true
logPaymentAdd(c) ==
  /\ logCalls[c].pc = "add"
  /\ payments' = Append(payments, logCalls[c].data)
  /\ logCalls' = [logCalls EXCEPT ![c].pc = "done", ![c].ret = TRUE]
  /\ UNCHANGED <<now, slots, bookings, venue, tx, mgrView, issued,
                 users, upserts, venueSlots, stats>>

NextPayments ==
  \/ \E c \in LogCalls, data \in PaymentInputs : logPaymentQuery(c, data)
  \/ \E c \in LogCalls : logPaymentAdd(c)

SpecPayments == Init /\ [][NextPayments]_vars

\* --------------------------------------------- POST /api/users/upsert
\* the handler up to its first read: assignedRole is "user" unless the body
\* asks for "manager" and users/{uid} of the caller has role "admin"
upsertRequest(r, uid, role) ==
  /\ upserts[r].pc = "idle"
  /\ LET callerRole == IF users[uid].exists THEN users[uid].role ELSE ""
         assignedRole == IF role = "manager" /\ callerRole = "admin"
                         THEN "manager" ELSE "user"
     IN upserts' = [upserts EXCEPT ![r] =
                      [IdleUpsert EXCEPT !.pc = "snap", !.uid = uid,
                                          !.role = role,
                                          !.assignedRole = assignedRole]]
  /\ UNCHANGED <<now, slots, bookings, venue, tx, mgrView, issued,
                 payments, logCalls, users, venueSlots, stats>>

\* const snap = await userRef.get()
upsertGet(r) ==
  /\ upserts[r].pc = "snap"
  /\ upserts' = [upserts EXCEPT ![r].pc = "set",
                                ![r].snapExists = users[upserts[r].uid].exists]
  /\ UNCHANGED <<now, slots, bookings, venue, tx, mgrView, issued,
                 payments, logCalls, users, venueSlots, stats>>

\* if (!snap.exists) userRef.set({...base, role: assignedRole, createdAt})
\* else userRef.set(base, {merge: true}); base has no role field, and a
\* merge into a document that is gone creates it without one
upsertSet(r) ==
  /\ upserts[r].pc = "set"
  /\ LET uid == upserts[r].uid IN
     users' = [users EXCEPT ![uid] =
                 IF ~upserts[r].snapExists
                 THEN [exists |-> TRUE, role |-> upserts[r].assignedRole]
                 ELSE [exists |-> TRUE, role |-> users[uid].role]]
  /\ upserts' = [upserts EXCEPT ![r].pc = "done", ![r].status = 200]
  /\ UNCHANGED <<now, slots, bookings, venue, tx, mgrView, issued,
                 payments, logCalls, venueSlots, stats>>

\* admin users page: updateDoc(users/{id}, {role: newRole}), refused for an
\* admin account
toggleRole(uid) ==
  /\ users[uid].exists
  /\ users[uid].role # "admin"
  /\ users' = [users EXCEPT ![uid].role =
                 IF users[uid].role = "manager" THEN "user" ELSE "manager"]
  /\ UNCHANGED <<now, slots, bookings, venue, tx, mgrView, issued,
                 payments, logCalls, upserts, venueSlots, stats>>

\* admin users page: deleteDoc(users/{id})
removeUser(uid) ==
  /\ users[uid].exists
  /\ users' = [users EXCEPT ![uid] = NoUser]
  /\ UNCHANGED <<now, slots, bookings, venue, tx, mgrView, issued,
                 payments, logCalls, upserts, venueSlots, stats>>

InitUsers ==
  /\ GridInit
  /\ payments = <<>>
  /\ logCalls = [c \in LogCalls |-> IdleCall]
  /\ users \in [Accounts -> UserDocs]
  /\ upserts = [r \in UpsertCalls |-> IdleUpsert]
  /\ venueSlots = NoLedger
  /\ stats = NoStats

NextUsers ==
  \/ \E r \in UpsertCalls, uid \in Accounts, role \in RoleInputs :
        upsertRequest(r, uid, role)
  \/ \E r \in UpsertCalls : upsertGet(r)
  \/ \E r \in UpsertCalls : upsertSet(r)
  \/ \E uid \in Accounts : toggleRole(uid)
  \/ \E uid \in Accounts : removeUser(uid)

SpecUsers == InitUsers /\ [][NextUsers]_vars

\* ------------------------------------ lib/migrations/migrate-slots.ts
\* the slot documents migrate() collects for the venue, in the order of
\* their ids
OldSlots == SelectSeq(<<FirstHour, SecondHour>>, LAMBDA s : slots[s].exists)

\* the switch of migrateVenue with the expiry test of its HELD case left out
migrateSlotKeepExpired(acc, s, doc, t) ==
  CASE doc.status = "BLOCKED" ->
         [acc EXCEPT !.data.blocked = Append(@, [startTime |-> s]),
                     !.stats.blocked = @ + 1]
    [] doc.status = "BOOKED" ->
         [acc EXCEPT !.data.bookings = Append(@, [startTime |-> s]),
                     !.stats.booked = @ + 1]
    [] doc.status = "HELD" ->
         [acc EXCEPT !.data.held = Append(@, [startTime |-> s]),
                     !.stats.held = @ + 1]
    [] doc.status = "RESERVED" ->
         [acc EXCEPT !.data.reserved = Append(@, [startTime |-> s]),
                     !.stats.reserved = @ + 1]
    [] doc.status = "AVAILABLE" ->
         [acc EXCEPT !.stats.available = @ + 1]
    [] OTHER -> acc

\* one turn of the loop of migrateVenue: switch (slot.status); a status
\* that matches no case stores nothing
migrateSlot(acc, s, doc, t) ==
  CASE doc.status = "BLOCKED" ->
         [acc EXCEPT !.data.blocked = Append(@, [startTime |-> s]),
                     !.stats.blocked = @ + 1]
    [] doc.status = "BOOKED" ->
         [acc EXCEPT !.data.bookings = Append(@, [startTime |-> s]),
                     !.stats.booked = @ + 1]
    [] doc.status = "HELD" ->
         IF doc.holdExpiresAt # -1 /\ doc.holdExpiresAt > t
         THEN [acc EXCEPT !.data.held = Append(@, [startTime |-> s]),
                          !.stats.held = @ + 1]
         ELSE acc
    [] doc.status = "RESERVED" ->
         [acc EXCEPT !.data.reserved = Append(@, [startTime |-> s]),
                     !.stats.reserved = @ + 1]
    [] doc.status = "AVAILABLE" ->
         [acc EXCEPT !.stats.available = @ + 1]
    [] OTHER -> acc

RECURSIVE migrateSlots(_, _, _)
migrateSlots(list, acc, t) ==
  IF list = <<>> THEN acc
  ELSE migrateSlots(Tail(list),
                    migrateSlot(acc, Head(list), slots[Head(list)], t), t)

\* migrateVenue for the slots of the venue; DRY_RUN is fixed for one run of
\* the script.  Without a slot inferSlotConfig gives null and the venue is
\* counted as an error.
migrateVenue(dryRun) ==
  /\ LET mode == IF dryRun THEN "dry" ELSE "live" IN
     IF OldSlots = <<>>
     THEN /\ stats' = [NoStats EXCEPT !.mode = mode, !.errors = 1]
          /\ venueSlots' = venueSlots
     ELSE LET acc == migrateSlots(OldSlots,
                                  [data |-> NoLedger,
                                   stats |-> [NoStats EXCEPT !.mode = mode]],
                                  now)
          IN /\ stats' = acc.stats
             /\ venueSlots' = IF dryRun THEN venueSlots
                              ELSE [acc.data EXCEPT !.exists = TRUE]
  /\ UNCHANGED <<now, slots, bookings, venue, tx, mgrView, issued,
                 payments, logCalls, users, upserts>>

\* the slot documents of the old architecture: one per slot, with any of the
\* statuses of OldSlot (and the lower-case "booked" the book route writes);
\* a HELD slot has no holdExpiresAt (-1) or one within the modelled time
HoldExpiries == {0 - 1, 1, 2}
LegacyDoc(s, st, exp) ==
  IF st = "" THEN NoSlot
  ELSE IF st \in {"AVAILABLE", "BLOCKED"} THEN [FreshSlot EXCEPT !.status = st]
  ELSE [FreshSlot EXCEPT !.status = st, !.bookingId = s - FirstHour + 1,
                         !.heldBy = IF st = "HELD" THEN "u1" ELSE "none",
                         !.holdExpiresAt = IF st = "HELD" THEN exp ELSE 0 - 1]
LegacyBooking(s, doc) ==
  IF doc.bookingId = 0 THEN NoBooking
  ELSE [NoBooking EXCEPT
          !.exists = TRUE, !.slotId = s,
          !.userId = IF doc.status = "RESERVED" THEN "none" ELSE "u1",
          !.status = IF doc.status = "HELD" THEN "PENDING_PAYMENT"
                     ELSE IF doc.status = "booked" THEN "pending"
                     ELSE "confirmed",
          !.bookingType = IF doc.status = "RESERVED" THEN "physical" ELSE "none",
          !.bookingExpiresAt = doc.holdExpiresAt]
LegacyStatuses == {"", "AVAILABLE", "BLOCKED", "BOOKED", "booked", "HELD",
                   "RESERVED"}

InitMigrate ==
  /\ now = 0
  /\ venue = [startHour |-> FirstHour, endHour |-> SecondHour + 1]
  /\ \E st \in [SlotIds -> LegacyStatuses], exp \in [SlotIds -> HoldExpiries] :
       /\ \E s \in SlotIds : st[s] # ""
       /\ \A s \in SlotIds : st[s] # "HELD" => exp[s] = 0 - 1
       /\ slots = [s \in SlotIds |-> LegacyDoc(s, st[s], exp[s])]
  /\ bookings = <<LegacyBooking(FirstHour, slots[FirstHour]),
                  LegacyBooking(SecondHour, slots[SecondHour])>>
  /\ tx = [a \in Actors |-> IdleTx]
  /\ mgrView = ViewOf(slots)
  /\ issued = 0
  /\ RestInit

NextMigrate ==
  \/ \E dryRun \in BOOLEAN : migrateVenue(dryRun)
  \/ Tick

SpecMigrate == InitMigrate /\ [][NextMigrate]_vars

\* ------------------------------------------------ vocabulary of the claims
\* effective status of a slot document at time t, as the specification
\* defines it: an unexpired hold, a booking, a block or a reservation
HeldUnexpired(doc, t) ==
  doc.exists /\ doc.status = "HELD" /\ doc.holdExpiresAt > t

HeldExpired(doc, t) ==
  /\ doc.exists /\ doc.status = "HELD"
  /\ doc.holdExpiresAt # -1 /\ doc.holdExpiresAt < t

Taken(doc) ==
  doc.exists /\ doc.status \in {"BOOKED", "booked", "BLOCKED", "RESERVED"}

InEffect(doc, t) == HeldUnexpired(doc, t) \/ Taken(doc)

\* the step answers a new request (every request counts as one operation)
Issuing == issued' = issued + 1

\* the step ran the body of a's transaction on slot s
HoldRan(a, s) ==
  \/ Issuing /\ \E d \in HoldDurationInputs : HoldRequest(a, s, d)
  \/ TxRetry(a) /\ tx[a].op = "hold" /\ tx[a].slot = s

BookRan(a, s) ==
  \/ Issuing /\ BookRequest(a, s)
  \/ TxRetry(a) /\ tx[a].op = "book" /\ tx[a].slot = s

ReserveRan(a, s) ==
  \/ Issuing /\ callerIsManagerOrAdmin(a)
       /\ \E c \in CustomerInputs : ReserveRequest(a, s, c)
  \/ TxRetry(a) /\ tx[a].op = "reserve" /\ tx[a].slot = s

Refused(a, code) ==
  /\ tx'[a].pc = "done" /\ tx'[a].status = code
  /\ slots' = slots /\ bookings' = bookings

Answered(a, op, code) ==
  tx[a].pc = "done" /\ tx[a].op = op /\ tx[a].status = code

\* C1: when N >= 2 hold requests race for the same available slot, exactly
\* one commits and returns a bookingId, each of the other N-1 returns 409,
\* and in the end the slot is held by the winner.
C1_ExactlyOneWinner ==
  (issued = MaxOps /\ \A a \in Actors : tx[a].pc \in {"idle", "done"}) =>
    LET winners == {a \in Actors : Answered(a, "hold", 200)}
        losers == {a \in Actors : Answered(a, "hold", 409)}
    IN /\ Cardinality(winners) = 1
       /\ Cardinality(losers) = MaxOps - 1
       /\ slots[FirstHour].status = "HELD"
       /\ slots[FirstHour].heldBy \in winners
       /\ \A w \in winners : tx[w].rbid = slots[FirstHour].bookingId

\* the race when every hold lasts: all holds taken so far are unexpired
HoldRaceExclusive ==
  (\A b \in 1..Len(bookings) : bookings[b].bookingExpiresAt > now) =>
    /\ Len(bookings) <= 1
    /\ \A a \in Actors :
         tx[a].pc = "done" =>
           \/ tx[a].status = 409 /\ Len(bookings) = 1
           \/ tx[a].status = 200 /\ slots[FirstHour].heldBy = a

\* C2: an expired hold never blocks acquisition: a hold request by another
\* user passes the check, and its commit replaces heldBy, holdExpiresAt and
\* bookingId of the stale hold and returns the new bookingId.
C2_ExpiredHoldReplaced ==
  [][\A a \in Actors, s \in SlotIds :
       (HeldExpired(slots[s], now) /\ slots[s].heldBy # a) =>
         /\ HoldRan(a, s) => tx'[a].pc = "commit"
         /\ (HoldCommit(a) /\ tx[a].slot = s) =>
              /\ slots'[s].status = "HELD"
              /\ slots'[s].heldBy = a
              /\ slots'[s].holdExpiresAt = tx[a].expires
              /\ slots'[s].bookingId # slots[s].bookingId
              /\ slots'[s].bookingId \notin 1..Len(bookings)
              /\ tx'[a].status = 200
              /\ tx'[a].rbid = slots'[s].bookingId]_vars

\* a second hold was taken strictly after the first one had expired
\* (no hold lasts longer than DefaultHoldMinutes here)
C2_Witness ==
  \E a \in Actors, s \in SlotIds, b \in 1..Len(bookings) :
    /\ Answered(a, "hold", 200) /\ tx[a].slot = s
    /\ slots[s].status = "HELD" /\ slots[s].heldBy = a
    /\ slots[s].bookingId = tx[a].rbid
    /\ b # tx[a].rbid
    /\ bookings[b].slotId = s /\ bookings[b].userId # a
    /\ bookings[b].status = "PENDING_PAYMENT"
    /\ slots[s].holdExpiresAt - bookings[b].bookingExpiresAt > DefaultHoldMinutes

\* C3: no successful hold, book, block or reserve overwrites a slot state
\* that is still in effect (unexpired hold, booking, block, reservation).
C3_NoOverwrite ==
  [][\A s \in SlotIds :
       (/\ InEffect(slots[s], now)
        /\ \/ \E a \in Actors : HoldCommit(a) \/ BookCommit(a) \/ ReserveCommit(a)
           \/ \E st \in {"BLOCKED"} : handleUpdateSlotStatus(s, st))
       => slots'[s] = slots[s]]_vars

\* C4: at most one live booking record references a slot (PENDING_PAYMENT
\* and unexpired, pending, or confirmed).
LiveBooking(b) ==
  /\ bookings[b].exists
  /\ \/ bookings[b].status = "PENDING_PAYMENT" /\ bookings[b].bookingExpiresAt > now
     \/ bookings[b].status = "pending"
     \/ bookings[b].status = "confirmed"

C4_OneLiveBooking ==
  \A s \in SlotIds :
    Cardinality({b \in 1..Len(bookings) :
                   LiveBooking(b) /\ bookings[b].slotId = s}) <= 1

\* C5: a hold request on a slot that is held and unexpired (by anyone),
\* booked, blocked or reserved answers 409, creates no booking record and
\* leaves the slot documents unchanged.
C5_HoldConflict ==
  [][\A a \in Actors, s \in SlotIds :
       (InEffect(slots[s], now) /\ HoldRan(a, s)) => Refused(a, 409)]_vars

C5_Witness ==
  \E a \in Actors :
    /\ Answered(a, "hold", 409)
    /\ HeldUnexpired(slots[tx[a].slot], now)
    /\ slots[tx[a].slot].heldBy = a

C7_SameExpiryRule ==
  [][\A a \in Actors, s \in SlotIds :
       (HeldExpired(slots[s], now) /\ (HoldRan(a, s) \/ BookRan(a, s) \/ ReserveRan(a, s)))
       => tx'[a].pc = "commit"]_vars

\* C8: after a hold by U, a book by U before the hold expires succeeds (and
\* turns the hold into the booking): it is not refused.
C8_HoldThenBook ==
  [][\A a \in Actors, s \in SlotIds :
       (BookRan(a, s) /\ HeldUnexpired(slots[s], now) /\ slots[s].heldBy = a)
       => tx'[a].pc = "commit"]_vars

\* C9: a book request on a slot held (unexpired) by a different user, or
\* booked, blocked or reserved, answers 409, creates no booking record and
\* leaves the slot unchanged.
C9_BookConflict ==
  [][\A a \in Actors, s \in SlotIds :
       (/\ BookRan(a, s)
        /\ \/ HeldUnexpired(slots[s], now) /\ slots[s].heldBy # a
           \/ Taken(slots[s]))
       => Refused(a, 409)]_vars

C9_Witness ==
  \E a \in Actors :
    /\ Answered(a, "book", 409)
    /\ HeldUnexpired(slots[tx[a].slot], now)
    /\ slots[tx[a].slot].heldBy # a

\* C10: a reserve request on a slot that is held (unexpired), booked,
\* blocked or already reserved answers 409 and changes neither the slot
\* nor the booking records.
C10_ReserveConflict ==
  [][\A a \in Actors, s \in SlotIds :
       (ReserveRan(a, s) /\ InEffect(slots[s], now)) => Refused(a, 409)]_vars

\* C11: a successful reserve adds exactly one booking record for the slot
\* (bookingType physical, status confirmed, the customerName and
\* customerPhone of the request), stores its bookingId on the slot and
\* returns that bookingId.
C11_ReserveEffect ==
  [][\A a \in Actors :
       \* every step of a's own request changes tx[a]
       tx'[a] # tx[a] =>
       \A s \in SlotIds :
         /\ \A c \in CustomerInputs :
              (Issuing /\ ReserveRequest(a, s, c) /\ tx'[a].pc = "commit") =>
                tx'[a].cust = c
         /\ (TxRetry(a) /\ tx[a].op = "reserve" /\ tx'[a].pc = "commit") =>
              tx'[a].cust = tx[a].cust
         /\ (ReserveCommit(a) /\ tx[a].slot = s) =>
              /\ Len(bookings') = Len(bookings) + 1
              /\ \A b \in 1..Len(bookings) : bookings'[b] = bookings[b]
              /\ bookings'[Len(bookings')].exists
              /\ bookings'[Len(bookings')].slotId = s
              /\ bookings'[Len(bookings')].bookingType = "physical"
              /\ bookings'[Len(bookings')].status = "confirmed"
              /\ bookings'[Len(bookings')].customerName = tx[a].cust.customerName
              /\ bookings'[Len(bookings')].customerPhone = tx[a].cust.customerPhone
              /\ slots'[s].bookingId = Len(bookings')
              /\ tx'[a].status = 200
              /\ tx'[a].rbid = slots'[s].bookingId]_vars

C11_Witness ==
  \E a \in Actors :
    /\ Answered(a, "reserve", 200)
    /\ slots[tx[a].slot].bookingId = tx[a].rbid
    /\ slots[tx[a].slot].status = "RESERVED"
    /\ bookings[tx[a].rbid].bookingType = "physical"
    /\ bookings[tx[a].rbid].status = "confirmed"
    /\ bookings[tx[a].rbid].customerName = "Bina"
    /\ bookings[tx[a].rbid].customerPhone = "982"
    /\ bookings[tx[a].rbid].slotId = tx[a].slot

\* the step ran the body of a's unbook transaction for slot s, booking b
UnbookRan(a, s, b) ==
  \/ Issuing /\ callerIsManagerOrAdmin(a) /\ UnbookRequest(a, s, b)
  \/ TxRetry(a) /\ tx[a].op = "unbook" /\ tx[a].slot = s /\ tx[a].bid = b

\* C12: unreserve on a booking that is not physical answers Forbidden (403)
\* and leaves the booking records and the slots unchanged; unreserve on a
\* physical booking deletes the record and returns its slot to AVAILABLE.
C12_UnreserveBoundary ==
  [][\A a \in Actors, s \in SlotIds, b \in 1..Len(bookings) :
       /\ (UnbookRan(a, s, b) /\ bookings[b].exists
              /\ bookings[b].bookingType # "physical") => Refused(a, 403)
       /\ (UnbookCommit(a) /\ tx[a].bid = b /\ tx[a].slot = s
              /\ bookings[b].bookingType = "physical") =>
            /\ ~bookings'[b].exists
            /\ slots'[bookings[b].slotId].status = "AVAILABLE"
            /\ tx'[a].status = 200]_vars

\* C13: unreserve(slotId, bookingId) on a slot whose bookingId is not the
\* request's bookingId answers NotFound (404) and leaves the slot's status
\* and bookingId unchanged.
C13_UnreserveMatches ==
  [][\A a \in Actors, s \in SlotIds, b \in 1..(Len(bookings) + 1) :
       /\ (UnbookRan(a, s, b) /\ slots[s].bookingId # b) => Refused(a, 404)
       /\ (UnbookCommit(a) /\ tx[a].bid = b /\ tx[a].slot = s
              /\ slots[s].bookingId # b) =>
            /\ slots'[s].status = slots[s].status
            /\ slots'[s].bookingId = slots[s].bookingId]_vars

\* C14: generateSchedule leaves every slot that is held, booked, blocked or
\* reserved before the call with the same status, hold fields and
\* bookingId after it.
C14_GenerateFrame ==
  [][\A a \in Actors, e \in GenerateEnds, s \in SlotIds :
       (/\ Generate(a, FirstHour, e, DefaultSlotDuration)
        /\ slots[s].exists
        /\ slots[s].status = "HELD" \/ Taken(slots[s]))
       => /\ slots'[s].status = slots[s].status
          /\ slots'[s].heldBy = slots[s].heldBy
          /\ slots'[s].holdExpiresAt = slots[s].holdExpiresAt
          /\ slots'[s].bookingId = slots[s].bookingId]_vars

\* the caller is the manager of the venue (venues/{venueId}.managedBy)
ManagesVenue(a) == a \in Managers

\* the step is a's call of one of the manager routes
ManagerRouteCalled(a) ==
  /\ Issuing
  /\ \/ \E s \in SlotIds, c \in CustomerInputs : ReserveRequest(a, s, c)
     \/ \E s \in SlotIds, b \in 1..(Len(bookings) + 1) : UnbookRequest(a, s, b)
     \/ \E e \in GenerateEnds : Generate(a, FirstHour, e, DefaultSlotDuration)

\* C15: reserve, unreserve and generateSchedule on the venue commit only
\* for its own manager (or an admin); a caller whose role is manager but
\* who does not manage the venue is answered 403 and the venue's slots and
\* bookings stay unchanged.
C15_VenueScopedRoles ==
  [][\A a \in Actors :
       ~ManagesVenue(a) =>
         /\ ManagerRouteCalled(a) => Refused(a, 403)
         /\ ~(ReserveCommit(a) \/ UnbookCommit(a))]_vars

\* C16: a request rejected at the gateway (400 missing field, 401 missing
\* or invalid token, 403 insufficient role) is answered with that error
\* and leaves every slot and booking record unchanged.
C16_GatewayNoChange ==
  [][\A a \in Actors :
       /\ \A op \in Routes, code \in {400, 401} :
            (/\ Issuing /\ tx'[a].op = op /\ tx'[a].status = code
             /\ EarlyReturn(a, op, code)) => Refused(a, code)
       /\ (~callerIsManagerOrAdmin(a) /\ ManagerRouteCalled(a)) => Refused(a, 403)]_vars

C16_Witness ==
  \E a, b \in Actors, s \in SlotIds :
    /\ tx[a].pc = "done" /\ tx[a].status = 403 /\ tx[a].op = "reserve"
    /\ tx[b].pc = "done" /\ tx[b].status \in {400, 401} /\ tx[b].op = "hold"
    /\ slots[s].exists

\* C17: a hold, book, reserve or unreserve never applies in part: a commit
\* shows the slot change together with the creation or deletion of the
\* booking record, and an attempt that failed validation or was rolled back
\* on a write conflict shows neither.
C17_NoPartialApply ==
  [][\A a \in Actors :
       LET s == tx[a].slot
           id == Len(bookings) + 1
           Created(status) ==
             /\ Len(bookings') = id
             /\ bookings'[id].exists /\ bookings'[id].slotId = s
             /\ slots'[s].status = status /\ slots'[s].bookingId = id
             /\ tx'[a].status = 200
       IN /\ HoldCommit(a) => Created("HELD")
          /\ BookCommit(a) => Created("booked")
          /\ ReserveCommit(a) => Created("RESERVED")
          /\ UnbookCommit(a) =>
               \/ /\ ~bookings'[tx[a].bid].exists
                  /\ slots'[s].status = "AVAILABLE" /\ slots'[s].bookingId = 0
                  /\ tx'[a].status = 200
               \/ tx'[a].status # 200 /\ slots' = slots /\ bookings' = bookings
          /\ TxRetry(a) => slots' = slots /\ bookings' = bookings
          /\ (tx'[a] # tx[a] /\ tx'[a].pc = "done" /\ tx'[a].status # 200
                /\ tx'[a].op \in {"hold", "book", "reserve", "unbook"}) =>
               slots' = slots /\ bookings' = bookings]_vars

C17_Witness ==
  \E a, b \in Actors :
    /\ Answered(a, "hold", 200) /\ Answered(b, "book", 409)
    /\ tx[a].slot = tx[b].slot
    /\ bookings[tx[a].rbid].exists
    /\ slots[tx[a].slot].bookingId = tx[a].rbid
    /\ Len(bookings) = 1

\* C18: a mutation that keeps losing write conflicts is retried a bounded
\* number of times and then answers Conflict (409), with no state change
\* from that request.
C18_RetriesThenConflict ==
  [][\A a \in Actors :
       /\ TxRetry(a) => tx'[a].attempts <= MaxAttempts
       /\ TxAbort(a) => Refused(a, 409)]_vars

\* C19: every committed hold, book, reserve, block, unblock or unreserve on
\* a slot validated its precondition against the state the preceding
\* committed mutation left on that slot: the precondition it checked holds
\* of the slot it commits onto, so no committed mutation is lost.
C19_TotalOrder ==
  [][\A s \in SlotIds :
       /\ \A a \in Actors :
            /\ (HoldCommit(a) /\ tx[a].slot = s) => HoldCheck(slots[s], now) = 0
            /\ (BookCommit(a) /\ tx[a].slot = s) => BookCheck(slots[s]) = 0
            /\ (ReserveCommit(a) /\ tx[a].slot = s) => ReserveCheck(slots[s]) = 0
            /\ (UnbookCommit(a) /\ tx[a].slot = s /\ tx'[a].status = 200) =>
                 /\ UnbookCheck(BookingAt(tx[a].bid)) = 0
                 /\ slots[s].bookingId = tx[a].bid
       /\ \A st \in {"AVAILABLE", "BLOCKED"} :
            handleUpdateSlotStatus(s, st) => ViewOf(slots)[s]]_vars

\* the step commits an operation on a slot other than k
OtherSlotStep(k) ==
  \/ \E b \in Actors :
       /\ tx[b].slot # k
       /\ HoldCommit(b) \/ BookCommit(b) \/ ReserveCommit(b) \/ UnbookCommit(b)
  \/ \E s \in SlotIds \ {k}, st \in {"AVAILABLE", "BLOCKED"} :
       handleUpdateSlotStatus(s, st)

\* C20: a hold, book or reserve on slot k changes no other slot, a hold on
\* an available slot k passes whatever the state of the other slots, and
\* no operation on another slot makes it lose its commit.
C20_KeysIndependent ==
  [][\A a \in Actors, k \in SlotIds :
       /\ ((HoldCommit(a) \/ BookCommit(a) \/ ReserveCommit(a)) /\ tx[a].slot = k) =>
            \A s \in SlotIds \ {k} : slots'[s] = slots[s]
       /\ (HoldRan(a, k) /\ slots[k].exists /\ slots[k].status = "AVAILABLE") =>
            tx'[a].pc = "commit"
       /\ (/\ tx[a].pc = "commit" /\ ~tx[a].stale /\ tx[a].slot = k
            /\ tx[a].op \in {"hold", "book", "reserve"}
            /\ OtherSlotStep(k)) =>
            tx'[a] = tx[a]]_vars

C20_Witness ==
  \E a, b \in Actors :
    /\ Answered(a, "hold", 409) /\ tx[a].slot = FirstHour
    /\ Answered(b, "hold", 200) /\ tx[b].slot = SecondHour
    /\ slots[SecondHour].heldBy = b
    /\ slots[FirstHour].status = "RESERVED"

\* C21: a slot whose start time has elapsed is never mutable: its cell is
\* not clickable, a hold, book or reserve request on it is refused, and no
\* hold, book or reserve commits on it.
C21_PastNeverMutable ==
  [][\A s \in SlotIds :
       isPast(s, now) =>
         /\ ~canClick(slots[s], s, now)
         /\ \A a \in Actors :
              tx'[a] # tx[a] =>
                /\ (HoldRan(a, s) \/ BookRan(a, s) \/ ReserveRan(a, s)) =>
                     tx'[a].pc # "commit"
                /\ ~(/\ tx[a].slot = s
                     /\ HoldCommit(a) \/ BookCommit(a) \/ ReserveCommit(a))]_vars

\* the start times the configuration (startTime, endTime, slotDuration)
\* stands for: startTime + k * slotDuration with the whole slot inside the
\* opening hours (minutes of the day)
ExpectedStart(s, startHour, endHour, slotDuration) ==
  \E k \in 0..24 :
    /\ s * 60 = startHour * 60 + k * slotDuration
    /\ startHour * 60 + (k + 1) * slotDuration <= endHour * 60

\* C22: the slots generated for (startTime, endTime, slotDuration) are
\* exactly the start times startTime + k * slotDuration whose slot ends by
\* endTime; a trailing partial slot is dropped.
C22_GeneratedSlots ==
  [][\A a \in Actors, sh \in GenerateStarts, eh \in GenerateEnds,
        dur \in SlotDurations :
       (Issuing /\ Generate(a, sh, eh, dur) /\ tx'[a].status = 200) =>
         \A s \in SlotIds :
           ~slots[s].exists =>
             (slots'[s].exists <=> ExpectedStart(s, sh, eh, dur))]_vars

\* the effective status of a slot document at instant t: a slot without a
\* document, or with a hold that is no longer in effect, is available
EffectivelyAvailable(doc, t) ==
  \/ ~doc.exists
  \/ doc.status = "AVAILABLE"
  \/ doc.status = "HELD" /\ ~HeldUnexpired(doc, t)

\* C23: a manager's block changes a slot only when its effective status at
\* commit time is available, an unblock only when it is blocked; neither
\* overwrites a slot a user has held or booked since the manager last read
\* it.
C23_StatusChangePrecondition ==
  [][\A s \in SlotIds :
       (Issuing /\ slots'[s] # slots[s]) =>
         /\ handleUpdateSlotStatus(s, "BLOCKED") =>
              EffectivelyAvailable(slots[s], now)
         /\ handleUpdateSlotStatus(s, "AVAILABLE") =>
              (slots[s].exists /\ slots[s].status = "BLOCKED")]_vars

\* C24: a hold, book or reserve request that names a slot without a
\* document is answered NotFound (404) and creates no slot and no booking.
C24_MissingSlotNotFound ==
  [][\A a \in Actors :
       tx'[a] # tx[a] =>
         \A s \in SlotIds :
           (~slots[s].exists
              /\ (HoldRan(a, s) \/ BookRan(a, s) \/ ReserveRan(a, s))) =>
             Refused(a, 404)]_vars

C24_Witness ==
  \E a \in Actors, op \in {"hold", "book", "reserve"} :
    /\ Answered(a, op, 404)
    /\ ~slots[tx[a].slot].exists
    /\ bookings = <<>>

\* C25: for every held slot and every instant, the slot view shows the slot
\* as available exactly when the hold transaction would accept a new hold
\* on it.
C25_OneExpiryRule ==
  \A s \in SlotIds :
    (slots[s].exists /\ slots[s].status = "HELD") =>
      (slotStatus(slots[s], now) = "AVAILABLE" <=> HoldCheck(slots[s], now) = 0)

\* C26: right after a successful hold the slot is effectively held: its
\* holdExpiresAt is strictly later than the commit instant, whatever
\* holdDurationMinutes the request carried, so that a hold by a second
\* user at that instant is refused with 409.
C26_HeldAfterCommit ==
  [][\A a \in Actors :
       (tx'[a] # tx[a] /\ HoldCommit(a)) =>
         /\ slots'[tx[a].slot].holdExpiresAt > now'
         /\ HoldCheck(slots'[tx[a].slot], now') = 409]_vars

\* C27: in every reachable state a slot whose status is HELD, BOOKED or
\* RESERVED carries the bookingId of an existing booking record of that
\* slot, and a slot whose status is AVAILABLE carries no bookingId of a
\* live booking.
C27_CrossReference ==
  \A s \in SlotIds :
    slots[s].exists =>
      /\ ToUpper(slots[s].status) \in {"HELD", "BOOKED", "RESERVED"} =>
           /\ BookingAt(slots[s].bookingId).exists
           /\ BookingAt(slots[s].bookingId).slotId = s
      /\ ToUpper(slots[s].status) = "AVAILABLE" =>
           (slots[s].bookingId = 0 \/ ~LiveBooking(slots[s].bookingId))

\* the key logPayment deduplicates by: the transactionUuid, or, when it is
\* absent, the bookingId and the refId
HasPaymentKey(p) == p.transactionUuid # "" \/ (p.bookingId # 0 /\ p.refId # "")
PaymentKey(p) ==
  IF p.transactionUuid # "" THEN <<"txn", p.transactionUuid, 0, "">>
  ELSE <<"ref", "", p.bookingId, p.refId>>

\* C28: after any sequence or interleaving of logPayment calls with the
\* same transactionUuid (or, when it is absent, the same bookingId and
\* refId) at most one payment record with that key exists.
C28_OneRecordPerKey ==
  \A i, j \in 1..Len(payments) :
    (i # j /\ HasPaymentKey(payments[i])) =>
      PaymentKey(payments[i]) # PaymentKey(payments[j])

\* C29: a user document created by upsert gets role manager only when the
\* caller has the admin role and otherwise role user (a document created
\* without a role field counts as role user here), never role admin, and
\* an upsert on an existing user document leaves its role unchanged
\* whatever role the request asks for.
C29_NoEscalation ==
  [][\A r \in UpsertCalls :
       (upserts'[r] # upserts[r] /\ upsertSet(r)) =>
         LET uid == upserts[r].uid IN
         IF users[uid].exists
         THEN users'[uid].role = users[uid].role
         ELSE /\ users'[uid].role \in {"", "user", "manager"}
              /\ users'[uid].role = "manager" =>
                   upserts[r].assignedRole = "manager"]_vars

\* the entries of a venueSlots document for the slot that starts at s
EntriesFor(ledger, s) ==
  Cardinality({<<l, i>> \in {"blocked", "bookings", "held", "reserved"} \X (1..Cardinality(SlotIds)) :
                 i <= Len(ledger[l]) /\ ledger[l][i].startTime = s})
StoredIn(list, s) == \E i \in 1..Len(list) : list[i].startTime = s

====
